---------------------------- MODULE Spec2Model ----------------------------
(***************************************************************************)
(* Model of scripts/bsp_indexer.py (class BspIndexer).                     *)
(*                                                                         *)
(* Text is modelled as a sequence of atomic chunks: "/" , "&" and "*" are  *)
(* chunks of their own, every other chunk is a run of characters that      *)
(* contains none of them.  Concatenation, prefix tests and comparisons of  *)
(* Python strings become the same operations on these sequences.           *)
(*                                                                         *)
(* The specifications share the variables:                                 *)
(*   SpecCrawl  scan_files: the os.walk loop with the exclusion globs      *)
(*   SpecRun    run: parse_files_parallel / parse_file / insert_batch,     *)
(*              save_metadata and save_meta_json                           *)
(*   SpecOrder  SpecRun for every order in which the crawl found the files *)
(*   SpecDts    _parse_dts scanned line by line, then insert_batch         *)
(*   SpecBb     _parse_bitbake scanned line by line, then insert_batch     *)
(*   SpecLong   the three extractors on lines with long values             *)
(***************************************************************************)
EXTENDS Integers, Sequences, FiniteSets, TLC

VARIABLES
    walk,          \* scan_files: directories os.walk still has to yield (a stack)
    files,         \* scan_files: the descriptors found / the list handed to the coordinator
    pc,            \* position of the coordinating thread
    i,             \* parse_files_parallel: start index of the current batch (1-based)
    fut,           \* per file of the list: state of its future in the pool
    ret,           \* per file of the list: what parse_file returned (result or None)
    results,       \* parse_files_parallel: the batch's collected results
    k,             \* insert_batch: number of results of the batch already written
    txn,           \* the connection's view of the tables (committed + pending rows)
    db,            \* the committed tables
    stats,         \* self.stats
    lines,         \* _parse_dts: the lines scanned so far
    node_stack,    \* _parse_dts: stack of (parent path, line number)
    current_path,  \* _parse_dts: path of the innermost open node, '' if none
    result,        \* _parse_dts: the result dict being filled
    meta_json      \* the file meta.json next to the store: <<>> if there is none

vars == <<walk, files, pc, i, fut, ret, results, k, txn, db, stats,
          lines, node_stack, current_path, result, meta_json>>

runVars == <<pc, i, fut, ret, results, k, txn, db, stats>>
dtsVars == <<lines, node_stack, current_path, result>>

----------------------------------------------------------------------------
(* Sequences *)

Last(s) == s[Len(s)]
Front(s) == SubSeq(s, 1, Len(s) - 1)
Range(s) == {s[n] : n \in 1..Len(s)}


----------------------------------------------------------------------------
(* Crawler: scan_files, _match_pattern *)

\* FILE_TYPES: extension -> format
FILE_TYPES ==
    [e \in {".bb", ".bbappend", ".inc", ".conf", ".h", ".dts", ".dtsi"} |->
        CASE e \in {".bb", ".bbappend", ".inc"} -> "recipe"
          [] e = ".conf" -> "config"
          [] e = ".h" -> "header"
          [] OTHER -> "dts"]

EXCLUDE_PATTERNS ==
    << <<"*", "/", "tmp", "/", "work", "/", "*">>,
       <<"*", "/", ".git", "/", "*">>,
       <<"*", "/", "sstate-cache", "/", "*">>,
       <<"*", "/", "downloads", "/", "*">> >>

\* fnmatch.fnmatch(s, p): "*" matches any run of chunks, "/" included
RECURSIVE fnmatch(_, _)
fnmatch(s, p) ==
    IF p = <<>> THEN s = <<>>
    ELSE IF p[1] = "*"
         THEN \E n \in 0..Len(s) : fnmatch(SubSeq(s, n + 1, Len(s)), Tail(p))
         ELSE s # <<>> /\ s[1] = p[1] /\ fnmatch(Tail(s), Tail(p))

\* _match_pattern(path, pattern)
_match_pattern(path, pattern) ==
    fnmatch(path, pattern) \/ fnmatch(<<"/">> \o path, pattern)

\* os.path.join(root, name) on relative paths ("." is the project root)
PathJoin(root, name) ==
    IF root = <<".">> THEN <<name>> ELSE root \o <<"/", name>>

\* the test of scan_files on rel_root
IsExcluded(rel_root) ==
    \E n \in 1..Len(EXCLUDE_PATTERNS) : _match_pattern(rel_root, EXCLUDE_PATTERNS[n])

\* os.path.splitext(filename)[1]
splitext(filename) ==
    CASE filename \in {"x.bb", "r.bb", "t.bb"} -> ".bb"
      [] filename = "y.H" -> ".H"
      [] filename \in {"h.h", "t.h"} -> ".h"
      [] filename \in {"t.dts", "a.dts", "b.dts", "d.dts"} -> ".dts"
      [] filename = "c.conf" -> ".conf"
      [] filename = "n.txt" -> ".txt"
      [] OTHER -> ""        \* a name without a dot

\* str.lower() on an extension
lower(e) == IF e = ".H" THEN ".h" ELSE e

\* the descriptor appended for one file name of directory root (the path is
\* kept relative to the project root, as parse_file's relpath makes it)
Descriptor(root, filename) ==
    LET ext == lower(splitext(filename)) IN
    [path |-> PathJoin(root, filename), name |-> filename,
     type |-> FILE_TYPES[ext], ext |-> ext]

\* the inner loop of scan_files over the file names of one directory
RECURSIVE ScanNames(_, _)
ScanNames(root, filenames) ==
    IF filenames = <<>> THEN <<>>
    ELSE (IF lower(splitext(filenames[1])) \in DOMAIN FILE_TYPES
          THEN <<Descriptor(root, filenames[1])>> ELSE <<>>)
         \o ScanNames(root, Tail(filenames))

DirNames == {"tmp", "work", "downloads", "a"}
FileNames == {"x.bb", "y.H", "n.txt"}
MaxDepth == 3
MaxFanout == 1

\* number of components of a relative directory path
Depth(root) == IF root = <<".">> THEN 0 ELSE (Len(root) + 1) \div 2

\* whether scan_files prunes the directory os.walk yields
SkipDir(rel_root) == IsExcluded(rel_root)

\* the orders in which the file system can list the names of S
Listings(S) ==
    {l \in [1..Cardinality(S) -> S] : \A a, b \in DOMAIN l : l[a] = l[b] => a = b}

\* one iteration of the os.walk loop: the directory on top of the stack is
\* yielded with its listing (dirs, filenames), each in the file system's order
WalkDir ==
    /\ pc = "walk"
    /\ walk # <<>>
    /\ LET root == Last(walk) IN
       \E dirs \in SUBSET DirNames, fnames \in SUBSET FileNames :
          /\ Cardinality(dirs) <= MaxFanout
          /\ Depth(root) >= MaxDepth => dirs = {}
          /\ IF SkipDir(root)
             THEN /\ walk' = Front(walk)        \* dirs.clear(); continue
                  /\ files' = files
             ELSE \E filenames \in Listings(fnames), dirlist \in Listings(dirs) :
                  /\ files' = files \o ScanNames(root, filenames)
                  /\ walk' = Front(walk) \o
                             [n \in DOMAIN dirlist |-> PathJoin(root, dirlist[n])]
    /\ UNCHANGED <<pc, i, fut, ret, results, k, txn, db, stats, dtsVars, meta_json>>

\* os.walk is exhausted: scan_files returns
WalkDone ==
    /\ pc = "walk"
    /\ walk = <<>>
    /\ pc' = "scanned"
    /\ UNCHANGED <<walk, files, i, fut, ret, results, k, txn, db, stats, dtsVars, meta_json>>

----------------------------------------------------------------------------
(* Text matching: the regular expressions of the extractors, on lines cut   *)
(* into chunks.  A chunk is either a maximal run of word characters (\w+),  *)
(* a run of white space (written " "), or one other character.              *)

NonWord == {" ", ":", "@", "{", "}", ";", "=", "<", ">", "&", "/", "#", ",",
            "-", "\"", "'", ".", "+", "?"}
IsWord(c) == c \notin NonWord
\* the word chunks of the model's alphabet that match [0-9a-fA-F]+
IsHex(c) == c \in {"0", "1", "2", "100", "a", "b", "c", "f"}

Min(S) == CHOOSE x \in S : \A y \in S : x <= y
Max(S) == CHOOSE x \in S : \A y \in S : x >= y

\* position after an optional white-space run at position p  (\s*)
SkipWs(s, p) == IF p <= Len(s) /\ s[p] = " " THEN p + 1 ELSE p

\* str.strip()
strip(s) ==
    LET a == IF s # <<>> /\ s[1] = " " THEN 2 ELSE 1
        b == IF Len(s) >= a /\ s[Len(s)] = " " THEN Len(s) - 1 ELSE Len(s)
    IN SubSeq(s, a, b)

\* number of leading chunks of s, from position p on, that are not in Stop
\* (a greedy [^...]+ or [...]+ run)
RunLen(s, p, Stop) ==
    Max({0} \cup {n \in 1..(Len(s) - p + 1) : \A m \in p..(p + n - 1) : s[m] \notin Stop})

NoMatch == [matched |-> FALSE]

\* re.match(r'#include\s*[<"]([^>"]+)[>"]', s)
IncEnd == {">", "\""}
MatchInclude(s) ==
    LET q == SkipWs(s, 3)
        n == RunLen(s, q + 1, IncEnd)
    IN IF /\ Len(s) >= 2 /\ s[1] = "#" /\ s[2] = "include"
          /\ q <= Len(s) /\ s[q] \in {"<", "\""}
          /\ n >= 1 /\ q + n + 1 <= Len(s)
       THEN [matched |-> TRUE, group1 |-> SubSeq(s, q + 1, q + n)]
       ELSE NoMatch

\* \s*\{ at position q
BraceAt(s, q) == LET r == SkipWs(s, q) IN r <= Len(s) /\ s[r] = "{"
\* (?:@([0-9a-fA-F]+)) at position q, followed by \s*\{
HasAddr(s, q) ==
    q + 1 <= Len(s) /\ s[q] = "@" /\ IsHex(s[q + 1]) /\ BraceAt(s, q + 2)
\* the lengths n of a name (\S+?) at position p after which the rest matches
NameLens(s, p) ==
    {n \in 1..(Len(s) - p + 1) :
        /\ \A m \in p..(p + n - 1) : s[m] # " "
        /\ HasAddr(s, p + n) \/ BraceAt(s, p + n)}
\* position after (\w+)\s*:\s* at the start of s, 0 if s does not start so
LabelEnd(s) ==
    IF Len(s) >= 2 /\ IsWord(s[1]) /\ SkipWs(s, 2) <= Len(s) /\ s[SkipWs(s, 2)] = ":"
    THEN SkipWs(s, SkipWs(s, 2) + 1) ELSE 0

\* re.match(r'^(?:(\w+)\s*:\s*)?(\S+?)(?:@([0-9a-fA-F]+))?\s*\{', s)
\* group 1 = label, group 2 = name, group 3 = address; <<>> is None
MatchNode(s) ==
    LET lp == LabelEnd(s)
        useLabel == lp > 0 /\ NameLens(s, lp) # {}
        p == IF useLabel THEN lp ELSE 1
        ns == NameLens(s, p)
    IN IF ns = {} THEN NoMatch
       ELSE LET q == p + Min(ns) IN
            [matched |-> TRUE,
             group1 |-> IF useLabel THEN <<s[1]>> ELSE <<>>,
             group2 |-> SubSeq(s, p, q - 1),
             group3 |-> IF HasAddr(s, q) THEN <<s[q + 1]>> ELSE <<>>]

\* stripped == '};' or stripped == '}'
IsClose(s) == s = <<"}", ";">> \/ s = <<"}">>

\* re.match(r'^([\w,#-]+)\s*(?:=\s*(.+?))?;$', s); group 2 = <<>> is None
NotPropName == NonWord \ {",", "#", "-"}
MatchProp(s) ==
    LET n == RunLen(s, 1, NotPropName)
        e == Len(s)
        q == SkipWs(s, n + 1)
        v == SkipWs(s, q + 1)
    IN IF n >= 1 /\ e >= 2 /\ s[e] = ";" /\ q = e
       THEN [matched |-> TRUE, group1 |-> SubSeq(s, 1, n), group2 |-> <<>>]
       ELSE IF n >= 1 /\ e >= 2 /\ s[e] = ";" /\ q < e /\ s[q] = "=" /\ q + 1 <= e - 1
       THEN [matched |-> TRUE, group1 |-> SubSeq(s, 1, n),
             group2 |-> IF v <= e - 1 THEN SubSeq(s, v, e - 1)
                        ELSE SubSeq(s, q + 1, e - 1)]
       ELSE NoMatch

\* [m.group(1) for m in re.finditer(r'&(\w+)', value)]
RECURSIVE label_refs(_)
label_refs(value) ==
    IF Len(value) < 2 THEN <<>>
    ELSE IF value[1] = "&" /\ IsWord(value[2])
         THEN <<value[2]>> \o label_refs(Tail(Tail(value)))
         ELSE label_refs(Tail(value))

\* value[:n]
Truncate(value, n) == SubSeq(value, 1, IF Len(value) < n THEN Len(value) ELSE n)

SymValueMax == 200
PropValueMax == 500

----------------------------------------------------------------------------
(* Hardware-tree extractor: _parse_dts *)

EmptyResult == [symbols |-> <<>>, includes |-> <<>>, dt_nodes |-> <<>>,
                dt_properties |-> <<>>]

\* the state of the scan before its first line
DtsStart == [node_stack |-> <<>>, current_path |-> <<>>, result |-> EmptyResult]

\* faulty variant of new_path: the open scope is forgotten
new_path_flat(name, cur) ==
    IF name[1] = "&" THEN name ELSE <<"/">> \o name

\* faulty variant of new_path: an override name is treated like any name
new_path_hier(name, cur) ==
    IF cur # <<>> THEN cur \o <<"/">> \o name ELSE <<"/">> \o name

\* the path of a node opened while current_path is the open scope
new_path(name, cur) ==
    IF name[1] = "&" THEN name
    ELSE IF cur # <<>> THEN cur \o <<"/">> \o name ELSE <<"/">> \o name

\* faulty variant of dt_node: the provisional end_line is 0
dt_node_zero(path, m, line_num) ==
    [path |-> path, name |-> m.group2, label |-> m.group1, address |-> m.group3,
     start_line |-> line_num, end_line |-> 0]

\* the dt_nodes entry of a node-opening line
dt_node(path, m, line_num) ==
    [path |-> path, name |-> m.group2, label |-> m.group1, address |-> m.group3,
     start_line |-> line_num, end_line |-> line_num]

\* for node in reversed(dt_nodes): if node['path'] == current_path: set end_line; break
update_end_line(dt_nodes, cur, line_num) ==
    LET hits == {n \in 1..Len(dt_nodes) : dt_nodes[n].path = cur} IN
    IF hits = {} THEN dt_nodes
    ELSE [dt_nodes EXCEPT ![Max(hits)].end_line = line_num]

\* the label_ref symbols of a property value
RefSymbols(refs, line_num) ==
    [n \in 1..Len(refs) |->
        [name |-> <<"&", refs[n]>>, value |-> <<refs[n]>>, type |-> "label_ref",
         line |-> line_num]]

\* faulty variant of OpenNode: an override node is not pushed on the stack
OpenNode_nopush(st, m, line_num) ==
    LET path == new_path(m.group2, st.current_path) IN
    [node_stack |-> IF m.group2[1] = "&" THEN st.node_stack
                    ELSE Append(st.node_stack, <<st.current_path, line_num>>),
     current_path |-> path,
     result |-> [st.result EXCEPT
        !.dt_nodes = Append(@, dt_node(path, m, line_num)),
        !.symbols = IF m.group1 # <<>>
                    THEN Append(@, [name |-> m.group1, value |-> path,
                                    type |-> "label", line |-> line_num])
                    ELSE @]]

\* the node-opening branch
OpenNode(st, m, line_num) ==
    LET path == new_path(m.group2, st.current_path) IN
    [node_stack |-> Append(st.node_stack, <<st.current_path, line_num>>),
     current_path |-> path,
     result |-> [st.result EXCEPT
        !.dt_nodes = Append(@, dt_node(path, m, line_num)),
        !.symbols = IF m.group1 # <<>>
                    THEN Append(@, [name |-> m.group1, value |-> path,
                                    type |-> "label", line |-> line_num])
                    ELSE @]]

\* faulty variant of CloseNode: the parent path is cut out of current_path
\* by dropping the node's name, which leaves the separator behind it
CloseNode_textual(st, line_num) ==
    IF st.node_stack # <<>>
    THEN [node_stack |-> Front(st.node_stack),
          current_path |-> Front(st.current_path),
          result |-> [st.result EXCEPT
             !.dt_nodes = update_end_line(@, st.current_path, line_num)]]
    ELSE st

\* faulty variant of CloseNode: with an empty stack the close is charged to
\* the node emitted last
CloseNode_last(st, line_num) ==
    IF st.node_stack # <<>>
    THEN [node_stack |-> Front(st.node_stack),
          current_path |-> Last(st.node_stack)[1],
          result |-> [st.result EXCEPT
             !.dt_nodes = update_end_line(@, st.current_path, line_num)]]
    ELSE [st EXCEPT !.result.dt_nodes =
             IF @ = <<>> THEN @ ELSE [@ EXCEPT ![Len(@)].end_line = line_num]]

\* the closing-brace branch
CloseNode(st, line_num) ==
    IF st.node_stack # <<>>
    THEN [node_stack |-> Front(st.node_stack),
          current_path |-> Last(st.node_stack)[1],
          result |-> [st.result EXCEPT
             !.dt_nodes = update_end_line(@, st.current_path, line_num)]]
    ELSE st

\* the property branch
AddProperty(st, m, line_num) ==
    [st EXCEPT !.result = [st.result EXCEPT
        !.dt_properties = Append(@, [node_path |-> st.current_path,
                                     name |-> m.group1,
                                     value |-> Truncate(m.group2, PropValueMax),
                                     line |-> line_num]),
        !.symbols = @ \o RefSymbols(label_refs(m.group2), line_num)]]

\* faulty variant of DtsLine: the property branch does not test that a scope
\* is open
DtsLine_unscoped(st, line, line_num) ==
    LET stripped == strip(line) IN
    IF MatchInclude(stripped).matched
    THEN [st EXCEPT !.result.includes =
            Append(@, [to_path |-> MatchInclude(stripped).group1,
                       type |-> "#include", line |-> line_num])]
    ELSE IF MatchNode(stripped).matched
    THEN OpenNode(st, MatchNode(stripped), line_num)
    ELSE IF IsClose(stripped)
    THEN CloseNode(st, line_num)
    ELSE IF MatchProp(stripped).matched
    THEN AddProperty(st, MatchProp(stripped), line_num)
    ELSE st

\* the body of the for loop of _parse_dts for one line
DtsLine(st, line, line_num) ==
    LET stripped == strip(line) IN
    IF MatchInclude(stripped).matched
    THEN [st EXCEPT !.result.includes =
            Append(@, [to_path |-> MatchInclude(stripped).group1,
                       type |-> "#include", line |-> line_num])]
    ELSE IF MatchNode(stripped).matched
    THEN OpenNode(st, MatchNode(stripped), line_num)
    ELSE IF IsClose(stripped)
    THEN CloseNode(st, line_num)
    ELSE IF MatchProp(stripped).matched /\ st.current_path # <<>>
    THEN AddProperty(st, MatchProp(stripped), line_num)
    ELSE st

\* _parse_dts on a whole content (a sequence of lines)
RECURSIVE DtsScan(_, _)
DtsScan(content, n) ==
    IF n = 0 THEN DtsStart ELSE DtsLine(DtsScan(content, n - 1), content[n], n)
_parse_dts(content) == DtsScan(content, Len(content)).result

----------------------------------------------------------------------------
(* Recipe and header extractors: _parse_bitbake, _parse_header *)

IsIdentStart(c) == IsWord(c) /\ c \notin {"0", "1", "2", "100"}
NotIdentRest == NonWord \ {"-"}
ValueEnd == {"\"", "'"}
PathEnd == {"\"", "'", " "}

\* length of (\??\+?=|:=|\.=) at position p, 0 if it does not match
AssignOpLen(s, p) ==
    LET a == IF p <= Len(s) /\ s[p] = "?" THEN p + 1 ELSE p
        b == IF a <= Len(s) /\ s[a] = "+" THEN a + 1 ELSE a
    IN IF b <= Len(s) /\ s[b] = "=" THEN b + 1 - p
       ELSE IF p + 1 <= Len(s) /\ s[p] \in {":", "."} /\ s[p + 1] = "="
       THEN 2 ELSE 0

\* re.match(r'^([A-Za-z_][A-Za-z0-9_-]*)\s*(\??\+?=|:=|\.=)\s*["\']?([^"\']*)', s)
MatchVariable(s) ==
    LET n == RunLen(s, 1, NotIdentRest)
        o == SkipWs(s, n + 1)
        ol == AssignOpLen(s, o)
        q == SkipWs(s, o + ol)
        v == IF q <= Len(s) /\ s[q] \in {"\"", "'"} THEN q + 1 ELSE q
    IN IF s # <<>> /\ IsIdentStart(s[1]) /\ ol > 0
       THEN [matched |-> TRUE, group1 |-> SubSeq(s, 1, n),
             group3 |-> SubSeq(s, v, v + RunLen(s, v, ValueEnd) - 1)]
       ELSE NoMatch

\* re.match(r'^(require|include)\s+["\'"]?([^"\'\s]+)', s)
MatchRequire(s) ==
    LET v == IF Len(s) >= 3 /\ s[3] \in {"\"", "'"} THEN 4 ELSE 3
        n == RunLen(s, v, PathEnd)
    IN IF Len(s) >= 3 /\ s[1] \in {"require", "include"} /\ s[2] = " " /\ n >= 1
       THEN [matched |-> TRUE, group1 |-> s[1], group2 |-> SubSeq(s, v, v + n - 1)]
       ELSE NoMatch

\* re.match(r'^inherit\s+(.+)', s)
MatchInherit(s) ==
    IF Len(s) >= 3 /\ s[1] = "inherit" /\ s[2] = " "
    THEN [matched |-> TRUE, group1 |-> SubSeq(s, 3, Len(s))]
    ELSE NoMatch

\* faulty variant of split: only the first field is returned
split_first(s) ==
    LET t == IF s # <<>> /\ s[1] = " " THEN Tail(s) ELSE s IN
    IF t = <<>> THEN <<>> ELSE <<SubSeq(t, 1, RunLen(t, 1, {" "}))>>

\* str.split()
RECURSIVE split(_)
split(s) ==
    IF s = <<>> THEN <<>>
    ELSE IF s[1] = " " THEN split(Tail(s))
    ELSE LET n == RunLen(s, 1, {" "}) IN
         <<SubSeq(s, 1, n)>> \o split(SubSeq(s, n + 1, Len(s)))

\* the body of the for loop of _parse_bitbake for one line
BitbakeLine(res, line, line_num) ==
    LET stripped == strip(line)
        mv == MatchVariable(stripped)
        mr == MatchRequire(stripped)
        mi == MatchInherit(stripped)
        classes == IF mi.matched THEN split(mi.group1) ELSE <<>>
    IN [res EXCEPT
        !.symbols = IF mv.matched
                    THEN Append(@, [name |-> mv.group1,
                                    value |-> Truncate(mv.group3, SymValueMax),
                                    type |-> "variable", line |-> line_num])
                    ELSE @,
        !.includes = (IF mr.matched
                      THEN Append(@, [to_path |-> mr.group2, type |-> mr.group1,
                                      line |-> line_num])
                      ELSE @)
                     \o [n \in 1..Len(classes) |->
                            [to_path |-> <<"classes", "/">> \o classes[n]
                                         \o <<".", "bbclass">>,
                             type |-> "inherit", line |-> line_num]]]

RECURSIVE BitbakeScan(_, _)
BitbakeScan(content, n) ==
    IF n = 0 THEN EmptyResult
    ELSE BitbakeLine(BitbakeScan(content, n - 1), content[n], n)
_parse_bitbake(content) == BitbakeScan(content, Len(content))

\* re.match(r'^#define\s+([A-Za-z_][A-Za-z0-9_]*)\s*(.*)', s)
MatchDefine(s) ==
    IF Len(s) >= 4 /\ s[1] = "#" /\ s[2] = "define" /\ s[3] = " " /\ IsIdentStart(s[4])
    THEN [matched |-> TRUE, group1 |-> <<s[4]>>,
          group2 |-> SubSeq(s, SkipWs(s, 5), Len(s))]
    ELSE NoMatch

\* the body of the for loop of _parse_header for one line
HeaderLine(res, line, line_num) ==
    LET stripped == strip(line)
        md == MatchDefine(stripped)
        mi == MatchInclude(stripped)
    IN [res EXCEPT
        !.symbols = IF md.matched
                    THEN Append(@, [name |-> md.group1,
                                    value |-> Truncate(md.group2, SymValueMax),
                                    type |-> "define", line |-> line_num])
                    ELSE @,
        !.includes = IF mi.matched
                     THEN Append(@, [to_path |-> mi.group1, type |-> "#include",
                                     line |-> line_num])
                     ELSE @]

RECURSIVE HeaderScan(_, _)
HeaderScan(content, n) ==
    IF n = 0 THEN EmptyResult
    ELSE HeaderLine(HeaderScan(content, n - 1), content[n], n)
_parse_header(content) == HeaderScan(content, Len(content))

----------------------------------------------------------------------------
(* parse_file *)

\* the content read from each file of the run (SpecRun); one line per entry
Content(path) ==
    CASE path = <<"a.dts">> ->
            << <<"x", ":", " ", "a", "@", "1", " ", "{">>,
               <<" ", "p", " ", "=", " ", "<", "&", "x", ">", ";">>,
               <<"}", ";">> >>
      [] path = <<"r.bb">> ->
            << <<"FOO", " ", "=", " ", "\"", "bar", "\"">>,
               <<"inherit", " ", "core", " ", "systemd">> >>
      [] path = <<"h.h">> ->
            << <<"#", "define", " ", "N", " ", "1">>,
               <<"#", "include", " ", "<", "s", ".", "h", ">">> >>
      [] path = <<"c.conf">> ->
            << <<"require", " ", "r", ".", "inc">> >>
      [] OTHER ->
            << <<"b", " ", "{">>, <<"q", ";">>, <<"}", ";">> >>

\* the extractor parse_file selects by the descriptor's type
Extract(type, content) ==
    CASE type \in {"recipe", "config"} -> _parse_bitbake(content)
      [] type = "dts" -> _parse_dts(content)
      [] type = "header" -> _parse_header(content)
      [] OTHER -> EmptyResult

\* the result dict of parse_file for a file that could be read
\* (size and mtime, copied from os.stat, are left out)
FileResult(file_info, extracted) ==
    [file |-> [path |-> file_info.path, name |-> file_info.name,
               type |-> file_info.type],
     symbols |-> extracted.symbols, includes |-> extracted.includes,
     dt_nodes |-> extracted.dt_nodes, dt_properties |-> extracted.dt_properties]

\* parse_file: <<result>>, or <<>> (None) when stat, open, read or an
\* extractor raised
parse_file(file_info, raised) ==
    IF raised THEN <<>>
    ELSE <<FileResult(file_info, Extract(file_info.type, Content(file_info.path)))>>

----------------------------------------------------------------------------
(* Store writer: insert_batch *)

EmptyTables == [files |-> <<>>, files_seq |-> 0, symbols |-> <<>>,
                includes |-> <<>>, dt_nodes |-> <<>>, dt_properties |-> <<>>,
                metadata |-> {}]
ZeroStats == [files |-> 0, symbols |-> 0, includes |-> 0, dt_nodes |-> 0,
              gpio_pins |-> 0]

Clip(x, hi) == IF x < 0 THEN 0 ELSE IF x > hi THEN hi ELSE x

\* node_id_map after the dt_nodes loop: path -> id of the last node inserted
\* with that path; first_id is the id the first node of the result gets
node_id_map(nodes, first_id) ==
    [p \in {nodes[n].path : n \in 1..Len(nodes)} |->
        first_id - 1 + Max({n \in 1..Len(nodes) : nodes[n].path = p})]

\* the properties of a result whose node_id_map.get(node_path) is found
MappedProps(r) ==
    SelectSeq(r.dt_properties,
              LAMBDA pr : pr.node_path \in {r.dt_nodes[n].path : n \in 1..Len(r.dt_nodes)})

\* number of execute() calls of the loop body for one result
NumStatements(r) ==
    1 + Len(r.symbols) + Len(r.includes) + Len(r.dt_nodes) + Len(MappedProps(r))

\* the tables after the first n execute() calls of the loop body for result r
\* (n = NumStatements(r): the whole body)
InsertRows(t, r, n) ==
    LET file_id == t.files_seq + 1
        ns == Clip(n - 1, Len(r.symbols))
        ni == Clip(n - 1 - Len(r.symbols), Len(r.includes))
        nn == Clip(n - 1 - Len(r.symbols) - Len(r.includes), Len(r.dt_nodes))
        props == MappedProps(r)
        np == Clip(n - 1 - Len(r.symbols) - Len(r.includes) - Len(r.dt_nodes),
                   Len(props))
        idmap == node_id_map(r.dt_nodes, Len(t.dt_nodes) + 1)
    IN IF n = 0 THEN t ELSE
       [files |-> SelectSeq(t.files, LAMBDA f : f.path # r.file.path)   \* OR REPLACE
                  \o <<[id |-> file_id, path |-> r.file.path, name |-> r.file.name,
                        type |-> r.file.type]>>,
        files_seq |-> file_id,
        symbols |-> t.symbols \o
            [m \in 1..ns |-> [id |-> Len(t.symbols) + m, name |-> r.symbols[m].name,
                              value |-> r.symbols[m].value, type |-> r.symbols[m].type,
                              file_id |-> file_id, line |-> r.symbols[m].line]],
        includes |-> t.includes \o
            [m \in 1..ni |-> [id |-> Len(t.includes) + m, from_file_id |-> file_id,
                              to_path |-> r.includes[m].to_path,
                              type |-> r.includes[m].type, line |-> r.includes[m].line]],
        dt_nodes |-> t.dt_nodes \o
            [m \in 1..nn |-> [id |-> Len(t.dt_nodes) + m, file_id |-> file_id,
                              path |-> r.dt_nodes[m].path, name |-> r.dt_nodes[m].name,
                              label |-> r.dt_nodes[m].label,
                              address |-> r.dt_nodes[m].address,
                              start_line |-> r.dt_nodes[m].start_line,
                              end_line |-> r.dt_nodes[m].end_line]],
        dt_properties |-> t.dt_properties \o
            [m \in 1..np |-> [id |-> Len(t.dt_properties) + m,
                              node_id |-> idmap[props[m].node_path],
                              name |-> props[m].name, value |-> props[m].value,
                              line |-> props[m].line]],
        metadata |-> t.metadata]

\* faulty variant of CountRows: the symbols counter is raised once per file
\* that has symbols, not once per row
CountRows_perfile(st, r, n) ==
    IF n = 0 THEN st ELSE
    [st EXCEPT
        !.files = @ + 1,
        !.symbols = @ + Clip(n - 1, IF r.symbols = <<>> THEN 0 ELSE 1),
        !.includes = @ + Clip(n - 1 - Len(r.symbols), Len(r.includes)),
        !.dt_nodes = @ + Clip(n - 1 - Len(r.symbols) - Len(r.includes),
                              Len(r.dt_nodes))]

\* self.stats after the first n execute() calls of the loop body for result r
CountRows(st, r, n) ==
    IF n = 0 THEN st ELSE
    [st EXCEPT
        !.files = @ + 1,
        !.symbols = @ + Clip(n - 1, Len(r.symbols)),
        !.includes = @ + Clip(n - 1 - Len(r.symbols), Len(r.includes)),
        !.dt_nodes = @ + Clip(n - 1 - Len(r.symbols) - Len(r.includes),
                              Len(r.dt_nodes))]

----------------------------------------------------------------------------
(* Parse coordinator: parse_files_parallel, and the pool's workers *)

\* batch_size is 100 and max_workers is 8 in the source; the model runs the
\* same loop on batches and a pool scaled down to these bounds
batch_size == 2
max_workers == 2
\* number of files scan_files returned
NumFiles == 4

\* the file list scan_files returned in the runs of SpecRun
RunFileList ==
    << [path |-> <<"a.dts">>, name |-> "a.dts", type |-> "dts", ext |-> ".dts"],
       [path |-> <<"r.bb">>, name |-> "r.bb", type |-> "recipe", ext |-> ".bb"],
       [path |-> <<"h.h">>, name |-> "h.h", type |-> "header", ext |-> ".h"],
       [path |-> <<"c.conf">>, name |-> "c.conf", type |-> "config", ext |-> ".conf"],
       [path |-> <<"b.dts">>, name |-> "b.dts", type |-> "dts", ext |-> ".dts"],
       [path |-> <<"d.dts">>, name |-> "d.dts", type |-> "dts", ext |-> ".dts"] >>

\* files[i:i+batch_size], as the set of its (1-based) indices
Batch(start) ==
    {j \in 1..Len(files) : start <= j /\ j < start + batch_size}

\* every file of the batch has been handed to the pool: the comprehension
\* over executor.submit is done and as_completed is entered
AllSubmitted(start) == \A m \in Batch(start) : fut[m] # "none"

\* executor.submit(self.parse_file, f) for the next file f of the batch, in
\* the order of the list; the first one follows results = [] and the creation
\* of the pool at the top of the loop body.  Workers take and finish the
\* files already submitted while the later ones are not yet submitted.
Submit(j) ==
    /\ pc \in {"loop", "pool"}
    /\ j \in Batch(i)
    /\ fut[j] = "none"
    /\ \A m \in Batch(i) : m < j => fut[m] # "none"
    /\ fut' = [fut EXCEPT ![j] = "queued"]
    /\ results' = IF pc = "loop" THEN <<>> ELSE results
    /\ pc' = "pool"
    /\ UNCHANGED <<walk, files, i, ret, k, txn, db, stats, dtsVars, meta_json>>

\* a pool thread takes a queued call of parse_file
WorkerStart(j) ==
    /\ fut[j] = "queued"
    /\ Cardinality({m \in DOMAIN fut : fut[m] = "running"}) < max_workers
    /\ fut' = [fut EXCEPT ![j] = "running"]
    /\ UNCHANGED <<walk, files, pc, i, ret, results, k, txn, db, stats, dtsVars, meta_json>>

\* faulty variant of StoreReturn: the return value is kept in one field that
\* all calls share
StoreReturn_shared(r, j, value) == [m \in DOMAIN r |-> value]

\* what a finished call leaves behind: the return value in its own future
StoreReturn(r, j, value) == [r EXCEPT ![j] = value]

\* parse_file returns in its worker (for a file that raised: None)
WorkerReturn(j) ==
    /\ fut[j] = "running"
    /\ \E raised \in BOOLEAN :
          ret' = StoreReturn(ret, j, parse_file(files[j], raised))
    /\ fut' = [fut EXCEPT ![j] = "done"]
    /\ UNCHANGED <<walk, files, pc, i, results, k, txn, db, stats, dtsVars, meta_json>>

\* faulty variant of CollectResult: only the result completed last is kept
CollectResult_latest(res, value) ==
    IF value # <<>> THEN <<value[1]>> ELSE res

\* faulty variant of CollectResult: a failed file discards what the batch
\* has collected so far
CollectResult_abort(res, value) ==
    IF value # <<>> THEN Append(res, value[1]) ELSE <<>>

\* result = future.result(); if result: results.append(result)
CollectResult(res, value) ==
    IF value # <<>> THEN Append(res, value[1]) ELSE res

\* as_completed yields a finished future
Collect(j) ==
    /\ pc = "pool"
    /\ AllSubmitted(i)
    /\ fut[j] = "done"
    /\ results' = CollectResult(results, ret[j])
    /\ fut' = [fut EXCEPT ![j] = "collected"]
    /\ UNCHANGED <<walk, files, pc, i, ret, k, txn, db, stats, dtsVars, meta_json>>

\* faulty variant of PoolDone: the coordinator goes on after the first
\* future it has collected, without waiting for the others
PoolDone_first(start) == \E j \in Batch(start) : fut[j] = "collected"

\* as_completed is exhausted and the with block has shut the pool down
PoolDone(start) == \A j \in Batch(start) : fut[j] = "collected"

\* the with block is left and insert_batch(results) is entered
ExitPool ==
    /\ pc = "pool"
    /\ PoolDone(i)
    /\ pc' = "insert"
    /\ k' = 0
    /\ UNCHANGED <<walk, files, i, fut, ret, results, txn, db, stats, dtsVars, meta_json>>

\* faulty variant of DbAfterExecute: a connection in autocommit mode, where
\* every execute() is committed at once
DbAfterExecute_autocommit(committed, t) == t

\* the committed tables after an execute(): the connection is not in
\* autocommit mode, nothing is committed before conn.commit()
DbAfterExecute(committed, t) == committed

\* insert_batch: the loop body for the next result of the batch
InsertNext ==
    /\ pc = "insert"
    /\ k < Len(results)
    /\ LET r == results[k + 1] IN
       /\ txn' = InsertRows(txn, r, NumStatements(r))
       /\ stats' = CountRows(stats, r, NumStatements(r))
       /\ db' = DbAfterExecute(db, txn')
    /\ k' = k + 1
    /\ UNCHANGED <<walk, files, pc, i, fut, ret, results, dtsVars, meta_json>>

\* insert_batch: an execute() of the loop body raises after n of the body's
\* statements were executed; the exception leaves insert_batch and run
InsertRaise ==
    /\ pc = "insert"
    /\ k < Len(results)
    /\ LET r == results[k + 1] IN
       \E n \in 0..(NumStatements(r) - 1) :
          /\ txn' = InsertRows(txn, r, n)
          /\ stats' = CountRows(stats, r, n)
          /\ db' = DbAfterExecute(db, txn')
    /\ pc' = "raised"
    /\ UNCHANGED <<walk, files, i, fut, ret, results, k, dtsVars, meta_json>>

\* insert_batch: conn.commit() raises
CommitRaise ==
    /\ pc = "insert"
    /\ k = Len(results)
    /\ pc' = "raised"
    /\ UNCHANGED <<walk, files, i, fut, ret, results, k, txn, db, stats, dtsVars, meta_json>>

\* insert_batch: conn.commit(), then processed += len(batch) and the next i
Commit ==
    /\ pc = "insert"
    /\ k = Len(results)
    /\ db' = txn
    /\ i' = i + batch_size
    /\ pc' = "loop"
    /\ UNCHANGED <<walk, files, fut, ret, results, k, txn, stats, dtsVars, meta_json>>

\* nothing catches the exception: the process ends and the connection is
\* dropped with its transaction open, which discards the pending rows (after
\* a failure of save_meta_json the connection is closed and nothing is pending)
Exit ==
    /\ pc = "raised"
    /\ txn' = db
    /\ pc' = "aborted"
    /\ UNCHANGED <<walk, files, i, fut, ret, results, k, db, stats, dtsVars, meta_json>>

\* the for loop is exhausted: parse_files_parallel returns
LoopEnd ==
    /\ pc = "loop"
    /\ i > Len(files)
    /\ pc' = "parsed"
    /\ UNCHANGED <<walk, files, i, fut, ret, results, k, txn, db, stats, dtsVars, meta_json>>

----------------------------------------------------------------------------
(* The end of run: save_metadata, conn.close, save_meta_json *)

\* the keys of the rows save_metadata writes, in the order of its execute()
\* calls
MetadataKeys == <<"last_index_time", "project_path", "indexer_version">>

\* the meta.json an earlier, successful run over an empty tree has left
EarlierMeta == [lastSaved |-> "earlier", stats |-> ZeroStats]

\* save_metadata: the three rows are written and committed
SaveMetadata ==
    /\ pc = "parsed"
    /\ txn' = [txn EXCEPT !.metadata = @ \cup Range(MetadataKeys)]
    /\ db' = txn'
    /\ pc' = "saved"
    /\ UNCHANGED <<walk, files, i, fut, ret, results, k, stats, dtsVars, meta_json>>

\* save_metadata: an execute() raises after n rows were written, or
\* conn.commit() raises after all of them (n = 3); the rows stay pending
SaveMetadataRaise ==
    /\ pc = "parsed"
    /\ \E n \in 0..Len(MetadataKeys) :
          txn' = [txn EXCEPT !.metadata = @ \cup {MetadataKeys[m] : m \in 1..n}]
    /\ pc' = "raised"
    /\ UNCHANGED <<walk, files, i, fut, ret, results, k, db, stats, dtsVars,
                   meta_json>>

\* the statistics are printed, the connection is closed and save_meta_json
\* writes meta.json with the counters
SaveMetaJson ==
    /\ pc = "saved"
    /\ meta_json' = <<[lastSaved |-> "now", stats |-> stats]>>
    /\ pc' = "done"
    /\ UNCHANGED <<walk, files, i, fut, ret, results, k, txn, db, stats, dtsVars>>

\* a meta.json that open(meta_path, 'w') has emptied and that holds no
\* summary
TruncatedMeta == [lastSaved |-> "", stats |-> <<>>]

\* the connection is closed and save_meta_json raises: in open(), which
\* leaves the file as it was, or while writing, which leaves it truncated
SaveMetaJsonRaise ==
    /\ pc = "saved"
    /\ meta_json' \in {meta_json, <<TruncatedMeta>>}
    /\ pc' = "raised"
    /\ UNCHANGED <<walk, files, i, fut, ret, results, k, txn, db, stats, dtsVars>>

----------------------------------------------------------------------------
(* _parse_dts, line by line, in the worker of a one-file run *)

MaxLines == 4

\* foo: bar@100 { reg = <0x100>; };
SingleLineNode ==
    <<"foo", ":", " ", "bar", "@", "100", " ", "{", " ", "reg", " ", "=", " ",
      "<", "0x100", ">", ";", " ", "}", ";">>

\* the lines a tree-source file is made of
DtsLines ==
    { <<"a", " ", "{">>,
      <<"a", "@", "1", " ", "{">>,
      <<"x", ":", " ", "b", " ", "{">>,
      <<"&", "x", " ", "{">>,
      <<"}", ";">>,
      <<" ", "p", " ", "=", " ", "<", "&", "x", ">", ";">>,
      <<"q", ";">>,
      <<"#", "include", " ", "\"", "f", ".", "h", "\"">>,
      SingleLineNode }

DtsFile == [path |-> <<"t.dts">>, name |-> "t.dts", type |-> "dts", ext |-> ".dts"]

\* one iteration of the for loop of _parse_dts, on the next line of the file
DtsReadLine ==
    /\ fut[1] = "running"
    /\ Len(lines) < MaxLines
    /\ \E line \in DtsLines :
          LET st == DtsLine([node_stack |-> node_stack, current_path |-> current_path,
                             result |-> result], line, Len(lines) + 1)
          IN /\ lines' = Append(lines, line)
             /\ node_stack' = st.node_stack
             /\ current_path' = st.current_path
             /\ result' = st.result
    /\ UNCHANGED <<walk, files, runVars, meta_json>>

\* the file has no more lines: _parse_dts and parse_file return
DtsReturn ==
    /\ fut[1] = "running"
    /\ Len(lines) >= 1
    /\ ret' = StoreReturn(ret, 1, <<FileResult(files[1], result)>>)
    /\ fut' = [fut EXCEPT ![1] = "done"]
    /\ UNCHANGED <<walk, files, pc, i, results, k, txn, db, stats, dtsVars, meta_json>>

----------------------------------------------------------------------------
(* _parse_bitbake, line by line, in the worker of a one-file run *)

MaxBbLines == 3

\* the lines a recipe file is made of
BbLines ==
    { <<"FOO", " ", "=", " ", "\"", "bar", "\"">>,
      <<"include", " ", "=", " ", "\"", "x", "\"">>,
      <<"inherit", " ", "+", "=", " ", "\"", "y", "\"">>,
      <<"inherit", " ", "core", " ", "systemd">>,
      <<"inherit", " ", "core">>,
      <<"require", " ", "r", ".", "inc">>,
      <<" ", "include", " ", "\"", "x", ".", "inc", "\"">>,
      <<"#", " ", "c">> }

BbFile == [path |-> <<"t.bb">>, name |-> "t.bb", type |-> "recipe", ext |-> ".bb"]

\* one iteration of the for loop of _parse_bitbake, on the next line of the
\* file
BbReadLine ==
    /\ fut[1] = "running"
    /\ Len(lines) < MaxBbLines
    /\ \E line \in BbLines :
          /\ lines' = Append(lines, line)
          /\ result' = BitbakeLine(result, line, Len(lines) + 1)
    /\ UNCHANGED <<walk, files, runVars, node_stack, current_path, meta_json>>

\* the file has no more lines: _parse_bitbake and parse_file return
BbReturn ==
    /\ fut[1] = "running"
    /\ Len(lines) >= 1
    /\ ret' = StoreReturn(ret, 1, <<FileResult(files[1], result)>>)
    /\ fut' = [fut EXCEPT ![1] = "done"]
    /\ UNCHANGED <<walk, files, pc, i, results, k, txn, db, stats, dtsVars, meta_json>>

----------------------------------------------------------------------------
(* The extractors on lines with long values, in the worker of a one-file    *)
(* run.  The values are runs of commas: one character per chunk, so that    *)
(* the length of a value is its number of characters.                       *)

MaxLongLines == 2

\* the lengths of the written values: around the two limits of the slices
ValueLens == {1, SymValueMax, SymValueMax + 1, PropValueMax + 1}

Commas(n) == [m \in 1..n |-> ","]

HFile == [path |-> <<"t.h">>, name |-> "t.h", type |-> "header", ext |-> ".h"]

\* the lines of a file of the given type that carry a value of n characters
LongLines(type, n) ==
    CASE type = "recipe" -> { <<"V", "=", "\"">> \o Commas(n) \o <<"\"">> }
      [] type = "header" -> { <<"#", "define", " ", "N", " ">> \o Commas(n) }
      [] type = "dts" ->
            { <<"x", ":", " ">> \o Commas(n) \o <<" ", "{">>,
              <<"p", "=">> \o Commas(n) \o <<";">>,
              <<"p", "=", "<", "&", "y", ">">> \o Commas(n) \o <<";">> }

\* one iteration of the for loop of the file's extractor, on the next line
LongReadLine ==
    /\ fut[1] = "running"
    /\ Len(lines) < MaxLongLines
    /\ \E n \in ValueLens : \E line \in LongLines(files[1].type, n) :
          LET line_num == Len(lines) + 1
              st == IF files[1].type = "dts"
                    THEN DtsLine([node_stack |-> node_stack,
                                  current_path |-> current_path,
                                  result |-> result], line, line_num)
                    ELSE [node_stack |-> node_stack, current_path |-> current_path,
                          result |-> IF files[1].type = "header"
                                     THEN HeaderLine(result, line, line_num)
                                     ELSE BitbakeLine(result, line, line_num)]
          IN /\ lines' = Append(lines, line)
             /\ node_stack' = st.node_stack
             /\ current_path' = st.current_path
             /\ result' = st.result
    /\ UNCHANGED <<walk, files, runVars, meta_json>>

\* the file has no more lines: the extractor and parse_file return
LongReturn ==
    /\ fut[1] = "running"
    /\ Len(lines) >= 1
    /\ ret' = StoreReturn(ret, 1, <<FileResult(files[1], result)>>)
    /\ fut' = [fut EXCEPT ![1] = "done"]
    /\ UNCHANGED <<walk, files, pc, i, results, k, txn, db, stats, dtsVars, meta_json>>

----------------------------------------------------------------------------
(* Specifications *)

InitCrawl ==
    /\ walk = << <<".">> >>
    /\ files = <<>>
    /\ pc = "walk"
    /\ i = 1
    /\ fut = <<>>
    /\ ret = <<>>
    /\ results = <<>>
    /\ k = 0
    /\ txn = EmptyTables
    /\ db = EmptyTables
    /\ stats = ZeroStats
    /\ lines = <<>>
    /\ node_stack = <<>>
    /\ current_path = <<>>
    /\ result = EmptyResult
    /\ meta_json = <<>>

NextCrawl == WalkDir \/ WalkDone

SpecCrawl == InitCrawl /\ [][NextCrawl]_vars

\* after init_db (which removes the store of an earlier run, but not its
\* meta.json) and scan_files, at the top of the loop of parse_files_parallel
InitRun ==
    /\ walk = <<>>
    /\ files = SubSeq(RunFileList, 1, NumFiles)
    /\ pc = "loop"
    /\ i = 1
    /\ fut = [j \in 1..NumFiles |-> "none"]
    /\ ret = [j \in 1..NumFiles |-> <<>>]
    /\ results = <<>>
    /\ k = 0
    /\ txn = EmptyTables
    /\ db = EmptyTables
    /\ stats = ZeroStats
    /\ lines = <<>>
    /\ node_stack = <<>>
    /\ current_path = <<>>
    /\ result = EmptyResult
    /\ meta_json \in {<<>>, <<EarlierMeta>>}

NextRun ==
    \/ \E j \in DOMAIN fut : Submit(j)
    \/ \E j \in DOMAIN fut : WorkerStart(j)
    \/ \E j \in DOMAIN fut : WorkerReturn(j)
    \/ \E j \in DOMAIN fut : Collect(j)
    \/ ExitPool
    \/ InsertNext
    \/ InsertRaise
    \/ CommitRaise
    \/ Commit
    \/ Exit
    \/ LoopEnd
    \/ SaveMetadata
    \/ SaveMetadataRaise
    \/ SaveMetaJson
    \/ SaveMetaJsonRaise

SpecRun == InitRun /\ [][NextRun]_vars

\* the orders in which os.walk can yield n files
CrawlOrders(n) == {f \in [1..n -> 1..n] : \A a, b \in 1..n : f[a] = f[b] => a = b}

\* after init_db and scan_files, at the top of the loop of
\* parse_files_parallel, for any order in which the crawl found the files
InitOrder ==
    /\ walk = <<>>
    /\ \E f \in CrawlOrders(NumFiles) :
          files = [j \in 1..NumFiles |-> RunFileList[f[j]]]
    /\ pc = "loop"
    /\ i = 1
    /\ fut = [j \in 1..NumFiles |-> "none"]
    /\ ret = [j \in 1..NumFiles |-> <<>>]
    /\ results = <<>>
    /\ k = 0
    /\ txn = EmptyTables
    /\ db = EmptyTables
    /\ stats = ZeroStats
    /\ lines = <<>>
    /\ node_stack = <<>>
    /\ current_path = <<>>
    /\ result = EmptyResult
    /\ meta_json = <<>>

SpecOrder == InitOrder /\ [][NextRun]_vars

\* a run over one tree-source file, its worker at the first line of _parse_dts
InitDts ==
    /\ walk = <<>>
    /\ files = <<DtsFile>>
    /\ pc = "pool"
    /\ i = 1
    /\ fut = <<"running">>
    /\ ret = << <<>> >>
    /\ results = <<>>
    /\ k = 0
    /\ txn = EmptyTables
    /\ db = EmptyTables
    /\ stats = ZeroStats
    /\ lines = <<>>
    /\ node_stack = <<>>
    /\ current_path = <<>>
    /\ result = EmptyResult
    /\ meta_json = <<>>

NextDts ==
    \/ DtsReadLine
    \/ DtsReturn
    \/ Collect(1)
    \/ ExitPool
    \/ InsertNext
    \/ Commit

SpecDts == InitDts /\ [][NextDts]_vars

\* a run over one recipe file, its worker at the first line of _parse_bitbake
InitBb ==
    /\ walk = <<>>
    /\ files = <<BbFile>>
    /\ pc = "pool"
    /\ i = 1
    /\ fut = <<"running">>
    /\ ret = << <<>> >>
    /\ results = <<>>
    /\ k = 0
    /\ txn = EmptyTables
    /\ db = EmptyTables
    /\ stats = ZeroStats
    /\ lines = <<>>
    /\ node_stack = <<>>
    /\ current_path = <<>>
    /\ result = EmptyResult
    /\ meta_json = <<>>

NextBb ==
    \/ BbReadLine
    \/ BbReturn
    \/ Collect(1)
    \/ ExitPool
    \/ InsertNext
    \/ Commit

SpecBb == InitBb /\ [][NextBb]_vars

\* a run over one file of any parsed type, its worker at the first line of
\* the file's extractor
InitLong ==
    /\ walk = <<>>
    /\ files \in {<<BbFile>>, <<HFile>>, <<DtsFile>>}
    /\ pc = "pool"
    /\ i = 1
    /\ fut = <<"running">>
    /\ ret = << <<>> >>
    /\ results = <<>>
    /\ k = 0
    /\ txn = EmptyTables
    /\ db = EmptyTables
    /\ stats = ZeroStats
    /\ lines = <<>>
    /\ node_stack = <<>>
    /\ current_path = <<>>
    /\ result = EmptyResult
    /\ meta_json = <<>>

NextLong ==
    \/ LongReadLine
    \/ LongReturn
    \/ Collect(1)
    \/ ExitPool
    \/ InsertNext
    \/ Commit

SpecLong == InitLong /\ [][NextLong]_vars

----------------------------------------------------------------------------
(* Claims on the crawler (SpecCrawl) *)

\* C1: no descriptor is returned for a file whose relative path matches an
\* exclusion glob, files directly inside an excluded directory included.
C1_NoExcludedDescriptor ==
    \A n \in 1..Len(files) : ~IsExcluded(files[n].path)

----------------------------------------------------------------------------
(* Claims on the coordinator and the store writer (SpecRun) *)

\* the rows of a table that belong to the files row with the given path
FileIdsOf(t, path) == {t.files[n].id : n \in {m \in 1..Len(t.files) : t.files[m].path = path}}

\* the rows with the given fields only
Project(rows, fields) == [n \in 1..Len(rows) |-> [f \in fields |-> rows[n][f]]]

\* table t holds the whole result r of a file: one files row, and exactly
\* the symbols, includes, nodes and properties of r under its identifier
StoredExactly(t, r) ==
    /\ Cardinality(FileIdsOf(t, r.file.path)) = 1
    /\ LET fid == CHOOSE x \in FileIdsOf(t, r.file.path) : TRUE
           nodeIds == {t.dt_nodes[n].id :
                          n \in {m \in 1..Len(t.dt_nodes) : t.dt_nodes[m].file_id = fid}}
       IN /\ Project(SelectSeq(t.symbols, LAMBDA x : x.file_id = fid),
                     {"name", "value", "type", "line"}) = r.symbols
          /\ Project(SelectSeq(t.includes, LAMBDA x : x.from_file_id = fid),
                     {"to_path", "type", "line"}) = r.includes
          /\ Project(SelectSeq(t.dt_nodes, LAMBDA x : x.file_id = fid),
                     {"path", "name", "label", "address", "start_line", "end_line"})
             = r.dt_nodes
          /\ Project(SelectSeq(t.dt_properties, LAMBDA x : x.node_id \in nodeIds),
                     {"name", "value", "line"})
             = Project(MappedProps(r), {"name", "value", "line"})

\* no row of any table of t refers to a file or node that t does not hold
NoOrphanRows(t) ==
    LET fids == {t.files[n].id : n \in 1..Len(t.files)}
        nids == {t.dt_nodes[n].id : n \in 1..Len(t.dt_nodes)}
    IN /\ \A n \in 1..Len(t.symbols) : t.symbols[n].file_id \in fids
       /\ \A n \in 1..Len(t.includes) : t.includes[n].from_file_id \in fids
       /\ \A n \in 1..Len(t.dt_nodes) : t.dt_nodes[n].file_id \in fids
       /\ \A n \in 1..Len(t.dt_properties) : t.dt_properties[n].node_id \in nids

\* table t holds exactly the results of the files before index bound
HoldsBatchesBefore(t, bound) ==
    /\ NoOrphanRows(t)
    /\ \A j \in 1..Len(files) :
          IF j < bound /\ ret[j] # <<>>
          THEN StoredExactly(t, ret[j][1])
          ELSE FileIdsOf(t, files[j].path) = {}

\* C2: when insert_batch has failed in the batch that starts at i, the store
\* holds exactly the rows of the batches before it, in every table.
C2_BatchAtomic ==
    pc \in {"raised", "aborted"} => HoldsBatchesBefore(db, i)

\* a run aborted in its second batch after rows of that batch were written
C2_Witness ==
    /\ pc = "aborted"
    /\ i > 1
    /\ db.files # <<>>
    /\ stats.symbols > Len(db.symbols)

\* the results of the files of the current batch that parse_file could extract
ExtractedOfBatch == {ret[j][1] : j \in {m \in Batch(i) : ret[m] # <<>>}}

\* C3: a file whose extraction failed contributes nothing and does not abort
\* its batch: the writer is handed exactly the extracted files of the batch,
\* a committed batch holds exactly them, and no file is parsed twice.
C3_FailureIsolated ==
    /\ [](pc = "insert" =>
            /\ Range(results) = ExtractedOfBatch
            /\ Len(results) = Cardinality(ExtractedOfBatch))
    /\ [](pc \in {"loop", "parsed"} => HoldsBatchesBefore(db, i))
    /\ [][\A j \in DOMAIN fut :
            fut[j] \in {"done", "collected"} =>
               fut'[j] \in {"done", "collected"} /\ ret'[j] = ret[j]]_vars

\* a committed batch in which one file failed and another was stored
C3_Witness ==
    /\ pc = "loop"
    /\ i > 1
    /\ \E a, b \in 1..(i - 1) :
          /\ ret[a] = <<>> /\ fut[a] = "collected"
          /\ ret[b] # <<>> /\ StoredExactly(db, ret[b][1])
          /\ (a - 1) \div batch_size = (b - 1) \div batch_size

\* C4: the writer runs for a batch only when all its workers are finished,
\* and calls in flight or results in hand always belong to the current batch.
C4_BatchOrder ==
    /\ pc \in {"insert", "raised"} => \A j \in Batch(i) : fut[j] = "collected"
    /\ \A j \in DOMAIN fut :
          fut[j] \in {"queued", "running", "done"} => pc = "pool" /\ j \in Batch(i)
    /\ pc \in {"pool", "insert"} =>
          \A n \in 1..Len(results) :
             results[n].file.path \in {files[j].path : j \in Batch(i)}

\* the writer at work on a full second batch
C4_Witness ==
    /\ pc = "insert"
    /\ i > 1
    /\ Len(results) = Cardinality(Batch(i))
    /\ Len(results) >= 2

Active(f) == \E j \in DOMAIN f : f[j] \in {"queued", "running"}

\* C5: the tables and the counters change only in steps of the coordinating
\* thread (insert_batch and the exit after its failure between batches,
\* save_metadata after the last batch) while no worker is queued or running,
\* and a worker that returns changes nothing but its own future.
C5_NoSharedWrites ==
    [][/\ <<txn, db, stats>>' # <<txn, db, stats>> =>
             pc \in {"insert", "raised", "parsed"} /\ ~Active(fut) /\ ~Active(fut')
       /\ \A j \in DOMAIN fut :
             fut[j] = "running" /\ fut'[j] = "done" =>
                /\ UNCHANGED <<txn, db, stats, results, files>>
                /\ \A m \in DOMAIN fut \ {j} : ret'[m] = ret[m] /\ fut'[m] = fut[m]]_vars

\* one worker has returned a result while another is still running
C5_Witness ==
    \E a, b \in DOMAIN fut :
       a # b /\ fut[a] = "done" /\ ret[a] # <<>> /\ fut[b] = "running"

\* C15: the metadata rows and a meta.json of this run exist only when every
\* batch has been committed, and when the run has failed in a batch the
\* output location holds no metadata rows and no meta.json, not even one of
\* an earlier run.
C15_NoSuccessClaim ==
    /\ (db.metadata # {} \/ (meta_json # <<>> /\ meta_json[1].lastSaved = "now")) =>
          /\ i > Len(files)
          /\ HoldsBatchesBefore(db, i)
    /\ (pc \in {"raised", "aborted"} /\ i <= Len(files)) =>
          db.metadata = {} /\ meta_json = <<>>

\* the counters st equal the numbers of rows of the tables of t
CountersMatch(st, t) ==
    /\ st.files = Len(t.files)
    /\ st.symbols = Len(t.symbols)
    /\ st.includes = Len(t.includes)
    /\ st.dt_nodes = Len(t.dt_nodes)

\* the files submitted to the pool so far
Dispatched == {j \in DOMAIN fut : fut[j] # "none"}

\* C21: after every committed batch and to the end of a successful run the
\* counters files, symbols, includes and dt_nodes equal the numbers of rows
\* of the committed tables, the summary meta.json of the run reports these
\* numbers, and the files counter never exceeds the number of files
\* dispatched so far.
C21_CounterConsistency ==
    /\ pc \in {"loop", "parsed", "saved", "done"} => CountersMatch(stats, db)
    /\ pc = "done" =>
          /\ meta_json # <<>>
          /\ meta_json[1].lastSaved = "now"
          /\ CountersMatch(meta_json[1].stats, db)
    /\ stats.files <= Cardinality(Dispatched)

\* a successful run has written its summary: the store holds several
\* symbols and fewer files than were dispatched, one having failed
C21_Witness ==
    /\ pc = "done"
    /\ meta_json # <<>>
    /\ meta_json[1].stats.symbols >= 3
    /\ meta_json[1].stats.files >= 2
    /\ meta_json[1].stats.files < Cardinality(Dispatched)

----------------------------------------------------------------------------
(* Claims on the stored facts of a whole run (SpecOrder) *)

\* the path of the files row with the given identifier
PathOfFile(t, id) ==
    (CHOOSE f \in Range(t.files) : f.id = id).path

\* the facts table t holds, each with the path of its file in place of the
\* generated identifiers (a property also with the path of its node)
StoredFacts(t) ==
    [files |-> {[path |-> f.path, name |-> f.name, type |-> f.type] :
                   f \in Range(t.files)},
     symbols |-> {[file |-> PathOfFile(t, x.file_id), name |-> x.name,
                   value |-> x.value, type |-> x.type, line |-> x.line] :
                     x \in Range(t.symbols)},
     includes |-> {[file |-> PathOfFile(t, x.from_file_id), to_path |-> x.to_path,
                    type |-> x.type, line |-> x.line] : x \in Range(t.includes)},
     dt_nodes |-> {[file |-> PathOfFile(t, x.file_id), path |-> x.path,
                    name |-> x.name, label |-> x.label, address |-> x.address,
                    start_line |-> x.start_line, end_line |-> x.end_line] :
                      x \in Range(t.dt_nodes)},
     dt_properties |->
        {LET nd == CHOOSE y \in Range(t.dt_nodes) : y.id = x.node_id IN
         [file |-> PathOfFile(t, nd.file_id), node_path |-> nd.path,
          name |-> x.name, value |-> x.value, line |-> x.line] :
            x \in Range(t.dt_properties)}]

\* the facts of the given set of files, from the content of each file alone
FactsOfFiles(fs) ==
    LET ex(f) == Extract(f.type, Content(f.path)) IN
    [files |-> {[path |-> f.path, name |-> f.name, type |-> f.type] : f \in fs},
     symbols |-> UNION {{[file |-> f.path, name |-> x.name, value |-> x.value,
                          type |-> x.type, line |-> x.line] :
                            x \in Range(ex(f).symbols)} : f \in fs},
     includes |-> UNION {{[file |-> f.path, to_path |-> x.to_path, type |-> x.type,
                           line |-> x.line] : x \in Range(ex(f).includes)} : f \in fs},
     dt_nodes |-> UNION {{[file |-> f.path, path |-> x.path, name |-> x.name,
                           label |-> x.label, address |-> x.address,
                           start_line |-> x.start_line, end_line |-> x.end_line] :
                             x \in Range(ex(f).dt_nodes)} : f \in fs},
     dt_properties |-> UNION {{[file |-> f.path, node_path |-> x.node_path,
                                name |-> x.name, value |-> x.value, line |-> x.line] :
                                  x \in Range(ex(f).dt_properties)} : f \in fs}]

\* the files of the tree that could be read and extracted in this run
Readable == {files[j] : j \in {m \in DOMAIN fut : ret[m] # <<>>}}

\* C14: when parse_files_parallel has returned, the set of stored facts,
\* taken by content and file path without the generated identifiers, is the
\* set of facts of the readable files of the tree, whatever the order of the
\* crawl and the order in which the workers of each batch completed.
C14_OrderIndependent ==
    pc = "parsed" => StoredFacts(db) = FactsOfFiles(Readable)

\* a finished run whose crawl order is not that of the file list, with two
\* files of one batch stored in the reverse of their crawl order
C14_Witness ==
    /\ pc = "parsed"
    /\ files[1] # RunFileList[1]
    /\ Cardinality(Readable) = NumFiles
    /\ \E a, b \in 1..Len(db.files) :
          /\ a < b
          /\ \E m, n \in 1..Len(files) :
                /\ m > n
                /\ (m - 1) \div batch_size = (n - 1) \div batch_size
                /\ db.files[a].path = files[m].path
                /\ db.files[b].path = files[n].path

----------------------------------------------------------------------------
(* Claims on the hardware-tree extractor (SpecDts) *)

\* the line numbers of the node-opening lines still unclosed after the first
\* n lines of the file, outermost first
RECURSIVE OpenLines(_)
OpenLines(n) ==
    IF n = 0 THEN <<>>
    ELSE LET below == OpenLines(n - 1)
             l == strip(lines[n])
         IN IF MatchInclude(l).matched THEN below
            ELSE IF MatchNode(l).matched THEN Append(below, n)
            ELSE IF IsClose(l) /\ below # <<>> THEN Front(below)
            ELSE below

\* the name written on node-opening line n
NameAtLine(n) == MatchNode(strip(lines[n])).group2

\* the net number of braces opened by the first n lines, as written
RECURSIVE BraceDepth(_)
BraceDepth(n) ==
    IF n = 0 THEN 0
    ELSE BraceDepth(n - 1)
         + Cardinality({m \in 1..Len(lines[n]) : lines[n][m] = "{"})
         - Cardinality({m \in 1..Len(lines[n]) : lines[n][m] = "}"})

\* the scopes of the scanned lines are balanced, as written and as scanned
BalancedScopes ==
    /\ \A n \in 0..Len(lines) : BraceDepth(n) >= 0
    /\ BraceDepth(Len(lines)) = 0
    /\ OpenLines(Len(lines)) = <<>>

\* C6: a closing line scanned with a non-empty stack sets end_line of the
\* node opened by the last unclosed opening line, and of no other node.
C6_BackfillTarget ==
    [][(/\ Len(lines') = Len(lines) + 1
        /\ IsClose(strip(Last(lines')))
        /\ node_stack # <<>>) =>
          \A n \in 1..Len(result.dt_nodes) :
             result'.dt_nodes[n].end_line =
                IF result.dt_nodes[n].start_line = Last(node_stack)[2]
                THEN Len(lines')
                ELSE result.dt_nodes[n].end_line]_vars

\* C7: every stored property row carries the identifier of the node that was
\* the innermost open scope when its line was scanned.
C7_PropertyOwner ==
    \A n \in 1..Len(db.dt_properties) :
       LET row == db.dt_properties[n] IN
       \E m \in 1..Len(db.dt_nodes) :
          /\ db.dt_nodes[m].id = row.node_id
          /\ OpenLines(row.line - 1) # <<>>
          /\ db.dt_nodes[m].start_line = Last(OpenLines(row.line - 1))

\* "/" + name for each of the given node-opening lines, concatenated
RECURSIVE JoinNames(_)
JoinNames(ls) ==
    IF ls = <<>> THEN <<>>
    ELSE JoinNames(Front(ls)) \o <<"/">> \o NameAtLine(Last(ls))

\* the opening lines of the node opened at line n and of the nodes around it
Chain(n) == Append(OpenLines(n - 1), n)

\* C8 as stated: after a balanced input every node's path is "/" followed by
\* the names of the nodes around it and its own name, joined by "/".
C8_RootedPath ==
    (fut[1] # "running" /\ BalancedScopes) =>
       \A n \in 1..Len(result.dt_nodes) :
          result.dt_nodes[n].path = JoinNames(Chain(result.dt_nodes[n].start_line))

\* the path a chain of opening lines yields when an override name restarts it
ChainPath(ls) ==
    LET ov == {m \in 1..Len(ls) : NameAtLine(ls[m])[1] = "&"} IN
    IF ov = {} THEN JoinNames(ls)
    ELSE NameAtLine(ls[Max(ov)]) \o JoinNames(SubSeq(ls, Max(ov) + 1, Len(ls)))

\* C8 amended: every node's path is the literal name of the innermost
\* override among the node and the nodes open around it, followed by "/" and
\* the name for each node below that override; with no override it is "/"
\* and the names of the open nodes and its own joined by "/".
C8_PathFromChain ==
    \A n \in 1..Len(result.dt_nodes) :
       result.dt_nodes[n].path = ChainPath(Chain(result.dt_nodes[n].start_line))

\* a balanced file scanned to its end, with a node nested in an override
\* node and a node nested in a plain node
C8_Witness ==
    /\ fut[1] = "done"
    /\ BalancedScopes
    /\ \E n \in 1..Len(result.dt_nodes) :
          LET nd == result.dt_nodes[n] IN
          /\ nd.name[1] # "&"
          /\ Len(Chain(nd.start_line)) = 2
          /\ NameAtLine(Chain(nd.start_line)[1])[1] = "&"
          /\ nd.path = NameAtLine(Chain(nd.start_line)[1]) \o <<"/">> \o nd.name

\* C9: in every state of the scan, and in the store, every node has
\* end_line >= start_line.
C9_EndLineBound ==
    /\ \A n \in 1..Len(result.dt_nodes) :
          result.dt_nodes[n].end_line >= result.dt_nodes[n].start_line
    /\ \A n \in 1..Len(db.dt_nodes) :
          db.dt_nodes[n].end_line >= db.dt_nodes[n].start_line

\* a balanced file scanned to its end with a node closed on a later line
C9_Witness ==
    /\ fut[1] = "done"
    /\ BalancedScopes
    /\ \E n \in 1..Len(result.dt_nodes) :
          result.dt_nodes[n].end_line > result.dt_nodes[n].start_line

\* C10: the path of a node whose name begins with "&" is that name, whatever
\* scope is open.
C10_OverridePath ==
    \A n \in 1..Len(result.dt_nodes) :
       result.dt_nodes[n].name[1] = "&" =>
          result.dt_nodes[n].path = result.dt_nodes[n].name

\* an override node opened inside an open plain node
C10_Witness ==
    \E n \in 1..Len(result.dt_nodes) :
       LET nd == result.dt_nodes[n] IN
       /\ nd.name[1] = "&"
       /\ OpenLines(nd.start_line - 1) # <<>>
       /\ NameAtLine(Last(OpenLines(nd.start_line - 1)))[1] # "&"
       /\ nd.path = <<"&", "x">>

\* C11: scanning the line foo: bar@100 { reg = <0x100>; }; adds exactly one
\* node, with label foo, name bar, address 100, the path of bar in the open
\* scope and start_line = end_line, adds exactly one property, named reg and
\* owned by that node, and leaves the stack and the cursor as they were.
C11_SingleLineNode ==
    [][(Len(lines') = Len(lines) + 1 /\ Last(lines') = SingleLineNode) =>
          LET path == new_path(<<"bar">>, current_path) IN
          /\ result'.dt_nodes =
                Append(result.dt_nodes,
                       [path |-> path, name |-> <<"bar">>, label |-> <<"foo">>,
                        address |-> <<"100">>, start_line |-> Len(lines'),
                        end_line |-> Len(lines')])
          /\ Len(result'.dt_properties) = Len(result.dt_properties) + 1
          /\ Last(result'.dt_properties).name = <<"reg">>
          /\ Last(result'.dt_properties).node_path = path
          /\ Last(result'.dt_properties).line = Len(lines')
          /\ node_stack' = node_stack
          /\ current_path' = current_path]_vars

\* C17: a closing line scanned while the stack is empty leaves the stack,
\* the cursor and all emitted nodes, properties, symbols and includes
\* unchanged, and the scan goes on.
C17_UnmatchedClose ==
    [][(/\ Len(lines') = Len(lines) + 1
        /\ IsClose(strip(Last(lines')))
        /\ node_stack = <<>>) =>
          /\ node_stack' = <<>>
          /\ current_path' = current_path
          /\ result' = result
          /\ fut'[1] = "running"]_vars

\* a closing line was scanned with an empty stack after a node had been
\* opened and closed, and a node was opened after it
C17_Witness ==
    \E n \in 2..Len(lines) :
       /\ IsClose(strip(lines[n]))
       /\ OpenLines(n - 1) = <<>>
       /\ \E a, b \in 1..Len(result.dt_nodes) :
             /\ result.dt_nodes[a].start_line < n
             /\ result.dt_nodes[a].end_line = n - 1
             /\ result.dt_nodes[b].start_line > n

\* C18: a property-shaped line scanned while no scope is open adds no
\* property and no label_ref Symbol (it adds nothing), and every emitted
\* property has a non-empty owning path.
C18_NoPropertyOutsideScope ==
    /\ [][(/\ Len(lines') = Len(lines) + 1
           /\ MatchProp(strip(Last(lines'))).matched
           /\ node_stack = <<>>) =>
             result' = result]_vars
    /\ [](\A n \in 1..Len(result.dt_properties) :
             result.dt_properties[n].node_path # <<>>)

\* a property line with a label reference was scanned outside every scope
\* and left no fact, and another property was emitted inside a scope
C18_Witness ==
    \E n \in 1..Len(lines) :
       /\ MatchProp(strip(lines[n])).matched
       /\ label_refs(MatchProp(strip(lines[n])).group2) # <<>>
       /\ OpenLines(n - 1) = <<>>
       /\ \A m \in 1..Len(result.dt_properties) : result.dt_properties[m].line # n
       /\ \A m \in 1..Len(result.symbols) : result.symbols[m].line # n
       /\ result.dt_properties # <<>>

\* C19: the owning path of every emitted property is the path of a node
\* emitted on an earlier line of the same result, so the writer finds an
\* identifier for every property and stores as many property rows as the
\* extractor emitted.
C19_NoPropertyDropped ==
    /\ \A n \in 1..Len(result.dt_properties) :
          \E m \in 1..Len(result.dt_nodes) :
             /\ result.dt_nodes[m].path = result.dt_properties[n].node_path
             /\ result.dt_nodes[m].start_line < result.dt_properties[n].line
    /\ MappedProps(result) = result.dt_properties
    /\ (pc = "loop" /\ i > 1) =>
          Len(db.dt_properties) = Len(result.dt_properties)

\* the file's rows are committed, among them a property that was scanned
\* after a closing line had restored the path of an outer node
C19_Witness ==
    /\ pc = "loop"
    /\ i > 1
    /\ \E n \in 1..Len(result.dt_properties) :
          LET ln == result.dt_properties[n].line IN
          /\ IsClose(strip(lines[ln - 1]))
          /\ Len(OpenLines(ln - 2)) = 2
          /\ Len(db.dt_properties) = Len(result.dt_properties)

\* whether line n is a node-opening line, and whether it is a closing line
IsOpeningLine(n) ==
    MatchNode(strip(lines[n])).matched /\ ~MatchInclude(strip(lines[n])).matched
IsClosingLine(n) == IsClose(strip(lines[n]))

\* the closing lines among the first n lines that had an open node to close
RECURSIVE MatchedCloses(_)
MatchedCloses(n) ==
    IF n = 0 THEN 0
    ELSE MatchedCloses(n - 1) +
         (IF /\ IsClosingLine(n)
             /\ Cardinality({m \in 1..(n - 1) : IsOpeningLine(m)})
                   > MatchedCloses(n - 1)
          THEN 1 ELSE 0)

\* node-opening lines minus closing lines among the first n lines
LineDepth(n) ==
    Cardinality({m \in 1..n : IsOpeningLine(m)})
    - Cardinality({m \in 1..n : IsClosingLine(m)})

\* the opening and closing lines of the scanned lines are balanced
BalancedLines ==
    /\ \A n \in 0..Len(lines) : LineDepth(n) >= 0
    /\ LineDepth(Len(lines)) = 0

\* C20: during the scan the cursor is empty exactly when the stack is empty,
\* the depth of the stack is the number of node-opening lines minus the
\* number of matched closing lines scanned so far, the bottom entry of the
\* stack holds the empty parent path, and after lines whose opening and
\* closing lines are balanced the stack and the cursor are empty.
C20_ScopeStack ==
    /\ (current_path = <<>>) <=> (node_stack = <<>>)
    /\ Len(node_stack) =
          Cardinality({m \in 1..Len(lines) : IsOpeningLine(m)})
          - MatchedCloses(Len(lines))
    /\ node_stack # <<>> => node_stack[1][1] = <<>>
    /\ BalancedLines => node_stack = <<>> /\ current_path = <<>>

\* balanced lines scanned to their end, with a node opened inside an
\* override node on the way
C20_Witness ==
    /\ fut[1] = "done"
    /\ BalancedLines
    /\ node_stack = <<>>
    /\ \E n \in 1..Len(lines) :
          /\ Len(OpenLines(n)) = 2
          /\ NameAtLine(OpenLines(n)[1])[1] = "&"

----------------------------------------------------------------------------
(* Claims on the recipe extractor (SpecBb) *)

\* the kinds of fact the result holds for line n of a recipe file
KindsAtLine(n) ==
    {"variable" : m \in {x \in 1..Len(result.symbols) : result.symbols[x].line = n}}
    \cup {IF result.includes[m].type = "inherit" THEN "inherit" ELSE "require"
             : m \in {x \in 1..Len(result.includes) : result.includes[x].line = n}}

\* C12: every line of a recipe file yields facts of at most one kind: a
\* variable Symbol, or a require/include edge, or inherit edges.
C12_LineExclusive ==
    \A n \in 1..Len(lines) : Cardinality(KindsAtLine(n)) <= 1

\* the fields of s between its runs of white space, in the order written
RECURSIVE Fields(_)
Fields(s) ==
    LET sp == {m \in 1..Len(s) : s[m] = " "} IN
    IF s = <<>> THEN <<>>
    ELSE IF sp = {} THEN <<s>>
    ELSE (IF Min(sp) > 1 THEN <<SubSeq(s, 1, Min(sp) - 1)>> ELSE <<>>)
         \o Fields(SubSeq(s, Min(sp) + 1, Len(s)))

\* the IncludeEdges the result holds for line n, in the order emitted
IncludesAtLine(n) == SelectSeq(result.includes, LAMBDA x : x.line = n)

\* C16: a line "inherit c1 ... cn" yields exactly n IncludeEdges, the i-th
\* with target classes/<ci>.bbclass, kind inherit and the number of the line,
\* in the order written.
C16_InheritExpansion ==
    \A n \in 1..Len(lines) :
       LET l == strip(lines[n])
           cs == Fields(SubSeq(l, 3, Len(l)))
       IN (Len(l) >= 3 /\ l[1] = "inherit" /\ l[2] = " ") =>
             IncludesAtLine(n) =
                [m \in 1..Len(cs) |->
                    [to_path |-> <<"classes", "/">> \o cs[m] \o <<".", "bbclass">>,
                     type |-> "inherit", line |-> n]]

\* the line inherit core systemd, scanned after another line, has yielded
\* classes/core.bbclass and classes/systemd.bbclass
C16_Witness ==
    \E n \in 2..Len(lines) :
       /\ lines[n] = <<"inherit", " ", "core", " ", "systemd">>
       /\ Len(IncludesAtLine(n)) = 2
       /\ IncludesAtLine(n)[1].to_path = <<"classes", "/", "core", ".", "bbclass">>
       /\ IncludesAtLine(n)[2].to_path = <<"classes", "/", "systemd", ".", "bbclass">>
       /\ IncludesAtLine(n)[2].type = "inherit"

----------------------------------------------------------------------------
(* Claims on the values of all extractors (SpecLong) *)

\* the value as written on the line of a variable or define Symbol
WrittenValue(sym) ==
    IF sym.type = "variable" THEN MatchVariable(strip(lines[sym.line])).group3
    ELSE MatchDefine(strip(lines[sym.line])).group2

\* C13: every Symbol of every kind (variable, define, label, label_ref) has
\* a value of at most 200 characters, a variable or define value written
\* longer is stored as its first 200 characters, and every property value
\* has at most 500 characters.
C13_TruncationBound ==
    /\ \A n \in 1..Len(result.symbols) :
          LET sym == result.symbols[n] IN
          /\ Len(sym.value) <= SymValueMax
          /\ sym.type \in {"variable", "define"} =>
                sym.value = SubSeq(WrittenValue(sym), 1,
                                   Min({Len(WrittenValue(sym)), SymValueMax}))
    /\ \A n \in 1..Len(result.dt_properties) :
          Len(result.dt_properties[n].value) <= PropValueMax

=============================================================================
